---- MODULE Spec2Model ----
(***************************************************************************)
(* Connecticut real-estate ingestion: ingest_data.py (CLI, the class       *)
(* CTRealEstateIngestion with download_data, clean_data, load_to_bronze,   *)
(* verify_load, run_pipeline) and test_connection.py (connectivity check). *)
(*                                                                         *)
(* Text is a sequence of one-character strings, so that str.strip,         *)
(* str.lower and str() are computed character by character.               *)
(***************************************************************************)
EXTENDS Integers, Sequences, FiniteSets, TLC

(* ------------------------------ bounds ------------------------------- *)

\* longest source dataset served to a CLI pipeline run
MaxSrcLen == 2
\* longest source dataset in direct calls of download_data / load_to_bronze
MaxLen == 3
\* largest batch_size passed to a direct call of load_to_bronze
MaxBatch == 3
\* times the CLI script is started against the same warehouse table
MaxRuns == 2

(* ------------------------- program constants ------------------------- *)

\* load_to_bronze(self, df, batch_size=5000)
DefaultBatchSize == 5000
\* ingestion.run_pipeline(limit=10000)
TestLimit == 10000

(* --------------------------- Python values --------------------------- *)

PyNone == [kind |-> "none", n |-> 0, s |-> <<>>]
\* float('nan'), pandas' missing-value representation
PyNaN == [kind |-> "nan", n |-> 0, s |-> <<>>]
PyInt(i) == [kind |-> "int", n |-> i, s |-> <<>>]
\* a float holding the integral value i (5.0)
PyFloat(i) == [kind |-> "float", n |-> i, s |-> <<>>]
PyText(t) == [kind |-> "str", n |-> 0, s |-> t]
EmptyStr == PyText(<<>>)

\* bool(v)
Truthy(v) ==
    CASE v.kind = "none" -> FALSE
      [] v.kind = "nan" -> TRUE
      [] v.kind = "int" -> v.n # 0
      [] v.kind = "float" -> v.n # 0
      [] v.kind = "str" -> v.s # <<>>

\* a or b
PyOr(a, b) == IF Truthy(a) THEN a ELSE b

Digits == <<"0", "1", "2", "3", "4", "5", "6", "7", "8", "9">>

RECURSIVE NatText(_)
NatText(i) ==
    IF i < 10 THEN <<Digits[i + 1]>>
    ELSE NatText(i \div 10) \o <<Digits[(i % 10) + 1]>>

IntText(i) == IF i < 0 THEN <<"-">> \o NatText(0 - i) ELSE NatText(i)

\* str(v), as text
StrOf(v) ==
    CASE v.kind = "none" -> <<"N", "o", "n", "e">>
      [] v.kind = "nan" -> <<"n", "a", "n">>
      [] v.kind = "int" -> IntText(v.n)
      [] v.kind = "float" -> IntText(v.n) \o <<".", "0">>
      [] v.kind = "str" -> v.s

Whitespace == {" ", "\t", "\n", "\r"}

RECURSIVE LStrip(_)
LStrip(t) ==
    IF t # <<>> /\ Head(t) \in Whitespace THEN LStrip(Tail(t)) ELSE t

RECURSIVE RStrip(_)
RStrip(t) ==
    IF t # <<>> /\ t[Len(t)] \in Whitespace
    THEN RStrip(SubSeq(t, 1, Len(t) - 1))
    ELSE t

\* str.strip()
Strip(t) == RStrip(LStrip(t))

UpperCase == <<"A", "B", "C", "D", "E", "F", "G", "H", "I", "J", "K", "L", "M",
               "N", "O", "P", "Q", "R", "S", "T", "U", "V", "W", "X", "Y", "Z">>
LowerCase == <<"a", "b", "c", "d", "e", "f", "g", "h", "i", "j", "k", "l", "m",
               "n", "o", "p", "q", "r", "s", "t", "u", "v", "w", "x", "y", "z">>

LowerChar(c) ==
    IF \E i \in 1..Len(UpperCase) : UpperCase[i] = c
    THEN LowerCase[CHOOSE i \in 1..Len(UpperCase) : UpperCase[i] = c]
    ELSE c

\* str.lower()
Lower(t) == [i \in 1..Len(t) |-> LowerChar(t[i])]

(* ----------------------------- the frame ----------------------------- *)

\* the source columns, in the order load_to_bronze reads them
ColumnNames == <<"Serial Number", "List Year", "Date Recorded", "Town",
                 "Address", "Assessed Value", "Sale Amount", "Sales Ratio",
                 "Property Type", "Residential Type", "Non Use Code",
                 "Assessor Remarks", "OPM remarks", "Location">>

ColumnSet == {ColumnNames[i] : i \in 1..Len(ColumnNames)}

\* the destination columns of the INSERT statement, in statement order
TargetColumns == <<"serial_number", "list_year", "date_recorded", "town",
                   "address", "assessed_value", "sale_amount", "sales_ratio",
                   "property_type", "residential_type", "non_use_code",
                   "assessor_remarks", "opm_remarks", "location">>

\* columns of the source that carry numbers
NumericColumns == {"Serial Number", "List Year", "Assessed Value",
                   "Sale Amount", "Sales Ratio"}

\* A frame: its rows (functions from column name to value) and the dtype
\* pandas holds for each column.
NoFrame == [rows |-> <<>>, dtypes |-> [c \in ColumnSet |-> "none"]]

\* Cells of a source body as the CSV parser reads them one by one: an
\* empty field is NaN, digits are an int, anything else is text.
RowFull ==
    [c \in ColumnSet |->
        CASE c = "List Year" -> PyInt(2020)
          [] c = "Sale Amount" -> PyInt(12)
          [] c \in NumericColumns -> PyInt(7)
          [] c = "Town" -> PyText(<<"A", "v", "o", "n">>)
          [] OTHER -> PyText(<<"x">>)]

RowZero ==
    [RowFull EXCEPT !["Assessed Value"] = PyInt(0),
                    !["Sale Amount"] = PyInt(0),
                    !["Sales Ratio"] = PyInt(0)]

RowGaps ==
    [RowFull EXCEPT !["Town"] = PyNaN,
                    !["Sale Amount"] = PyNaN,
                    !["Non Use Code"] = PyNaN,
                    !["OPM remarks"] = PyNaN,
                    !["Location"] = PyNaN]

RowPadded ==
    [RowFull EXCEPT !["Town"] = PyText(<<"H", "a", " ", " ">>),
                    !["Address"] = PyText(<<" ", "1", " ", "M">>),
                    !["Assessor Remarks"] = PyText(<<" ">>)]

\* records a source body is made of
SourceRows == {RowFull, RowZero, RowGaps, RowPadded}

\* records of the bodies served to CLI runs
CliRows == {RowZero, RowGaps, RowPadded}

\* every source body of at most n records drawn from rows
SourcesUpTo(n, rows) == UNION {[1..k -> rows] : k \in 0..n}

\* the bodies the portal can answer a request with
Sources(entry) ==
    IF entry = "cli" THEN SourcesUpTo(MaxSrcLen, CliRows)
    ELSE SourcesUpTo(MaxLen, SourceRows)

ColumnHas(rows, c, kind) == \E i \in 1..Len(rows) : rows[i][c].kind = kind

\* pd.read_csv: one dtype per column. A column with any text is object and
\* its numbers stay the text they were read from; a numeric column with a
\* gap is float64; a numeric column without gaps is int64; a frame without
\* rows has object columns.
ReadDtype(rows, c) ==
    IF Len(rows) = 0 \/ ColumnHas(rows, c, "str") THEN "object"
    ELSE IF ColumnHas(rows, c, "nan") THEN "float64"
    ELSE "int64"

ReadCell(v, dtype) ==
    CASE v.kind = "int" /\ dtype = "object" -> PyText(IntText(v.n))
      [] v.kind = "int" /\ dtype = "float64" -> PyFloat(v.n)
      [] OTHER -> v

ReadCsv(src) ==
    LET dt == [c \in ColumnSet |-> ReadDtype(src, c)]
    IN [rows |-> [i \in 1..Len(src) |->
                    [c \in ColumnSet |-> ReadCell(src[i][c], dt[c])]],
        dtypes |-> dt]

Min(a, b) == IF a < b THEN a ELSE b
Max(a, b) == IF a > b THEN a ELSE b

\* df.head(n): the first n rows, or all but the last -n rows when n < 0
HeadRows(frame, n) ==
    LET k == IF n >= 0 THEN Min(n, Len(frame.rows))
             ELSE Max(Len(frame.rows) + n, 0)
    IN [frame EXCEPT !.rows = SubSeq(frame.rows, 1, k)]

\* download_data's result for a parsed body: "if limit: df = df.head(limit)"
Limited(frame, lim) ==
    IF Truthy(lim) THEN HeadRows(frame, lim.n) ELSE frame

\* df.where(pd.notnull(df), None). An object column takes None for each
\* gap. A float64 column keeps NaN on a pandas that reads the None as its
\* own missing value (keeps = TRUE) and otherwise becomes an object column
\* holding None.
WhereNotNull(frame, keeps) ==
    LET swap(c) == frame.dtypes[c] = "object"
                   \/ (frame.dtypes[c] = "float64" /\ ~keeps)
    IN [rows |-> [i \in 1..Len(frame.rows) |->
                    [c \in ColumnSet |->
                        IF swap(c) /\ frame.rows[i][c].kind = "nan"
                        THEN PyNone ELSE frame.rows[i][c]]],
        dtypes |-> [c \in ColumnSet |->
                        IF swap(c) /\ ColumnHas(frame.rows, c, "nan")
                        THEN "object" ELSE frame.dtypes[c]]]

\* x.strip() if isinstance(x, str) else x
StripCell(v) == IF v.kind = "str" THEN PyText(Strip(v.s)) ELSE v

\* the loop over df.select_dtypes(include=['object']).columns
StripObjectColumns(frame) ==
    [frame EXCEPT !.rows =
        [i \in 1..Len(frame.rows) |->
            [c \in ColumnSet |->
                IF frame.dtypes[c] = "object"
                THEN StripCell(frame.rows[i][c]) ELSE frame.rows[i][c]]]]

\* clean_data's result
Cleaned(frame, keeps) == StripObjectColumns(WhereNotNull(frame, keeps))

\* One row as iterrows yields it: a Series of the columns' common dtype.
\* With an object column the values are kept; without one, and with a
\* float64 column, the ints are floats.
IterRow(frame, i) ==
    LET dts == {frame.dtypes[c] : c \in ColumnSet}
        up == "object" \notin dts /\ "float64" \in dts
    IN [c \in ColumnSet |->
            IF up /\ frame.rows[i][c].kind = "int"
            THEN PyFloat(frame.rows[i][c].n) ELSE frame.rows[i][c]]

\* row.get(key, default)
RowGet(row, key, default) == IF key \in DOMAIN row THEN row[key] ELSE default

\* str(row.get(col, '') or '')
FieldText(row, col) == StrOf(PyOr(RowGet(row, col, EmptyStr), EmptyStr))

\* value_tuple: the 14 texts of a row, in statement order
ValueTuple(row) == [k \in 1..Len(ColumnNames) |-> FieldText(row, ColumnNames[k])]

\* the values list of the batch df.iloc[start_idx:end_idx]
BatchValues(frame, start_idx, end_idx) ==
    [j \in 1..(end_idx - start_idx) |-> ValueTuple(IterRow(frame, start_idx + j))]

(* ------------------------------ state -------------------------------- *)

VARIABLES
    caller,         \* entry point of this behaviour: "cli", "load", "download", "check"
    pc,             \* position of the (single) thread of control
    typed_choice,   \* what input() returned at the first prompt, or PyNone
    typed_confirm,  \* what input() returned at the second prompt, or PyNone
    choice,         \* the variable choice, or PyNone before it is assigned
    confirm,        \* the variable confirm, or PyNone before it is assigned
    limit,          \* the limit argument of run_pipeline / download_data
    conn,           \* the warehouse connection: "none", "open", "closed"
    cursor,         \* its cursor: "none", "open", "closed"
    connects,       \* calls of snowflake.connector.connect by this process
    conn_args,      \* keyword arguments of the last connect call
    df,             \* the local df of the running stage
    batch_size,     \* load_to_bronze's batch_size
    start_idx,      \* load_to_bronze's loop variable
    inserted_count, \* load_to_bronze's inserted_count
    table,          \* rows of CT_REAL_ESTATE.BRONZE.raw_sales
    table0,         \* the table when this process (or direct call) started
    ops,            \* warehouse calls issued by this process, in order
    errlog,         \* logger.error records of this process, in order
    exc,            \* stage whose exception is propagating, or "none"
    failed,         \* stage that raised in this run, or "none"
    stages,         \* stages entered and completed in this run, in order
    count,          \* verify_load's count, or -1
    runs,           \* process invocations (or direct calls) so far
    keeps,          \* whether this pandas keeps NaN in float64 columns under where(.., None)
    env,            \* the process environment
    missing,        \* test_connection's missing list
    shown,          \* what test_connection printed for each required variable
    served          \* the frame read_csv returned to download_data, before the limit

vars == <<caller, pc, typed_choice, typed_confirm, choice, confirm, limit,
          conn, cursor, connects, conn_args, df, batch_size, start_idx,
          inserted_count, table, table0, ops, errlog, exc, failed, stages,
          count, runs, keeps, env, missing, shown, served>>

cliVars == <<typed_choice, typed_confirm, choice, confirm>>
sessVars == <<conn, cursor, connects, conn_args>>
loadVars == <<batch_size, start_idx, inserted_count>>
checkVars == <<env, missing, shown>>
runVars == <<caller, runs, keeps, table0, served>>

(* --------------------------- environment ----------------------------- *)

\* required_vars of test_connection.py, in list order
required_vars == <<"SNOWFLAKE_ACCOUNT", "SNOWFLAKE_USER", "SNOWFLAKE_PASSWORD",
                   "SNOWFLAKE_WAREHOUSE", "SNOWFLAKE_DATABASE">>

EnvNames == {required_vars[i] : i \in 1..Len(required_vars)}
               \cup {"SNOWFLAKE_SCHEMA", "SNOWFLAKE_ROLE"}

SomeValue == PyText(<<"v">>)

\* os.getenv gives None for an unset name and the text otherwise
EnvValues == {PyNone, EmptyStr, SomeValue}

FullEnv == [k \in EnvNames |-> SomeValue]

Getenv(k) == env[k]

\* the text a line of input() can hold at the first prompt
ChoiceInputs == {<<"1">>, <<" ", "1", "\n">>, <<"2">>, <<"3">>, <<>>,
                 <<"1", "2">>}

\* the text a line of input() can hold at the second prompt
ConfirmInputs == {<<"y", "e", "s">>, <<" ", "Y", "E", "s">>, <<"n", "o">>,
                  <<"y">>, <<>>}

One == <<"1">>
Two == <<"2">>
Yes == <<"y", "e", "s">>

\* the limits a direct caller of download_data passes
Limits == {PyNone} \cup {PyInt(k) : k \in -1..(MaxLen + 1)}

(* ------------------------------ logging ------------------------------ *)

Call(op, ok, values) == [op |-> op, ok |-> ok, values |-> values]

\* logger.error(f"✗ Error downloading data: {e}")
DownloadErrorRecord == "Error downloading data"
\* logger.error("=" * 60)
RuleRecord == "=" 
\* logger.error("✗ PIPELINE FAILED!")
FailedBannerRecord == "PIPELINE FAILED!"
\* logger.error(f"  Error: {e}")
ErrorDetailRecord == "Error:"

\* where control goes when a stage raises: run_pipeline's except clause,
\* or straight to the caller of a directly called method
RaiseTo == IF caller = "cli" THEN "except" ELSE "raised"

(* ------------------------- ingest_data.py: CLI ----------------------- *)

\* choice = input(...).strip(), then the if/elif/else on it
ReadChoice ==
    /\ caller = "cli" /\ pc = "choice"
    /\ \E t \in ChoiceInputs :
        /\ typed_choice' = PyText(t)
        /\ choice' = PyText(Strip(t))
        /\ IF Strip(t) = One
           THEN pc' = "init" /\ limit' = PyInt(TestLimit)
           ELSE IF Strip(t) = Two
           THEN pc' = "confirm" /\ limit' = limit
           ELSE pc' = "exit" /\ limit' = limit
    /\ UNCHANGED <<typed_confirm, confirm, sessVars, df, loadVars, table, ops,
                   errlog, exc, failed, stages, count, runVars, checkVars>>

\* the full load runs unless the answer is "no"
ReadConfirm_UnlessNo ==
    /\ caller = "cli" /\ pc = "confirm"
    /\ \E t \in ConfirmInputs :
        /\ typed_confirm' = PyText(t)
        /\ confirm' = PyText(Lower(Strip(t)))
        /\ pc' = IF Lower(Strip(t)) # <<"n", "o">> THEN "init" ELSE "exit"
    /\ limit' = PyNone
    /\ UNCHANGED <<typed_choice, choice, sessVars, df, loadVars, table, ops,
                   errlog, exc, failed, stages, count, runVars, checkVars>>

\* confirm = input(...).strip().lower(), then the if/else on it
ReadConfirm ==
    /\ caller = "cli" /\ pc = "confirm"
    /\ \E t \in ConfirmInputs :
        /\ typed_confirm' = PyText(t)
        /\ confirm' = PyText(Lower(Strip(t)))
        /\ pc' = IF Lower(Strip(t)) = Yes THEN "init" ELSE "exit"
    /\ limit' = PyNone
    /\ UNCHANGED <<typed_choice, choice, sessVars, df, loadVars, table, ops,
                   errlog, exc, failed, stages, count, runVars, checkVars>>

\* the keyword arguments __init__ passes to connect
InitConnectArgs ==
    [account |-> Getenv("SNOWFLAKE_ACCOUNT"), user |-> Getenv("SNOWFLAKE_USER"),
     password |-> Getenv("SNOWFLAKE_PASSWORD"),
     warehouse |-> Getenv("SNOWFLAKE_WAREHOUSE"),
     database |-> Getenv("SNOWFLAKE_DATABASE"),
     schema |-> PyNone, role |-> Getenv("SNOWFLAKE_ROLE")]

\* CTRealEstateIngestion(): connect and cursor succeed; the CLI then
\* enters run_pipeline
Construct ==
    /\ caller = "cli" /\ pc = "init"
    /\ connects' = connects + 1
    /\ conn_args' = InitConnectArgs
    /\ conn' = "open" /\ cursor' = "open"
    /\ pc' = "download"
    /\ UNCHANGED <<cliVars, limit, df, loadVars, table, ops, errlog, exc,
                   failed, stages, count, runVars, checkVars>>

\* CTRealEstateIngestion(): connect raises, no object is constructed and
\* the process ends with the exception
ConstructFail ==
    /\ caller = "cli" /\ pc = "init"
    /\ connects' = connects + 1
    /\ conn_args' = InitConnectArgs
    /\ pc' = "crashed"
    /\ UNCHANGED <<cliVars, limit, conn, cursor, df, loadVars, table, ops,
                   errlog, exc, failed, stages, count, runVars, checkVars>>

(* --------------------------- download_data --------------------------- *)

\* requests.get, raise_for_status and read_csv succeed on some body
DownloadData ==
    /\ pc = "download"
    /\ \E src \in Sources(caller) :
        /\ served' = ReadCsv(src)
        /\ df' = Limited(ReadCsv(src), limit)
    /\ stages' = stages \o <<"begin download", "end download">>
    /\ pc' = IF caller = "cli" THEN "clean" ELSE "returned"
    /\ UNCHANGED <<cliVars, limit, sessVars, loadVars, table, ops, errlog,
                   exc, failed, count, caller, runs, keeps, table0, checkVars>>

\* download_data's except clause without its raise: the failure is logged
\* and run_pipeline goes on to clean_data
DownloadDataFail_NoRaise ==
    /\ pc = "download"
    /\ errlog' = Append(errlog, DownloadErrorRecord)
    /\ stages' = Append(stages, "begin download")
    /\ failed' = "download"
    /\ pc' = IF caller = "cli" THEN "clean" ELSE "returned"
    /\ UNCHANGED <<cliVars, limit, sessVars, df, loadVars, table, ops, count,
                   exc, runVars, checkVars>>

\* download_data's except clause without its logger.error
DownloadDataFail_NoLog ==
    /\ pc = "download"
    /\ stages' = Append(stages, "begin download")
    /\ exc' = "download" /\ failed' = "download"
    /\ pc' = RaiseTo
    /\ UNCHANGED <<cliVars, limit, sessVars, df, loadVars, table, ops, count,
                   errlog, runVars, checkVars>>

\* the request times out, the status is an error or the body does not
\* parse: the except clause logs and re-raises
DownloadDataFail ==
    /\ pc = "download"
    /\ errlog' = Append(errlog, DownloadErrorRecord)
    /\ stages' = Append(stages, "begin download")
    /\ exc' = "download" /\ failed' = "download"
    /\ pc' = RaiseTo
    /\ UNCHANGED <<cliVars, limit, sessVars, df, loadVars, table, ops, count,
                   runVars, checkVars>>

(* ----------------------------- clean_data ---------------------------- *)

CleanData ==
    /\ pc = "clean"
    /\ df' = Cleaned(df, keeps)
    /\ stages' = stages \o <<"begin clean", "end clean">>
    /\ pc' = "truncate"
    /\ batch_size' = DefaultBatchSize
    /\ UNCHANGED <<cliVars, limit, sessVars, start_idx, inserted_count, table,
                   ops, errlog, exc, failed, count, runVars, checkVars>>

\* any exception out of the pandas calls
CleanDataFail ==
    /\ pc = "clean"
    /\ stages' = Append(stages, "begin clean")
    /\ exc' = "clean" /\ failed' = "clean"
    /\ pc' = RaiseTo
    /\ UNCHANGED <<cliVars, limit, sessVars, df, loadVars, table, ops, errlog,
                   count, runVars, checkVars>>

(* --------------------------- load_to_bronze -------------------------- *)

\* load_to_bronze without the TRUNCATE statement taking effect
Truncate_KeepsRows ==
    /\ pc = "truncate"
    /\ ops' = Append(ops, Call("TRUNCATE", TRUE, <<>>))
    /\ table' = table
    /\ start_idx' = 0 /\ inserted_count' = 0
    /\ stages' = Append(stages, "begin load")
    /\ pc' = "batch"
    /\ UNCHANGED <<cliVars, limit, sessVars, df, batch_size, errlog, exc,
                   failed, count, runVars, checkVars>>

\* cursor.execute("TRUNCATE TABLE ..."), then total_rows and inserted_count
Truncate ==
    /\ pc = "truncate"
    /\ ops' = Append(ops, Call("TRUNCATE", TRUE, <<>>))
    /\ table' = <<>>
    /\ start_idx' = 0 /\ inserted_count' = 0
    /\ stages' = Append(stages, "begin load")
    /\ pc' = "batch"
    /\ UNCHANGED <<cliVars, limit, sessVars, df, batch_size, errlog, exc,
                   failed, count, runVars, checkVars>>

TruncateFail ==
    /\ pc = "truncate"
    /\ ops' = Append(ops, Call("TRUNCATE", FALSE, <<>>))
    /\ stages' = Append(stages, "begin load")
    /\ exc' = "load" /\ failed' = "load"
    /\ pc' = RaiseTo
    /\ UNCHANGED <<cliVars, limit, sessVars, df, loadVars, table, errlog,
                   count, runVars, checkVars>>

\* total_rows = len(df)
total_rows == Len(df.rows)

\* the slice bound one short of the end of the frame
end_idx_OffByOne == Max(start_idx, Min(start_idx + batch_size, total_rows - 1))

\* end_idx = min(start_idx + batch_size, total_rows)
end_idx == Min(start_idx + batch_size, total_rows)

\* one iteration of the for loop: build values, executemany, count
InsertBatch ==
    /\ pc = "batch"
    /\ start_idx < total_rows
    /\ LET values == BatchValues(df, start_idx, end_idx)
       IN /\ ops' = Append(ops, Call("INSERT", TRUE, values))
          /\ table' = table \o values
          /\ inserted_count' = inserted_count + Len(values)
    /\ start_idx' = start_idx + batch_size
    /\ UNCHANGED <<pc, cliVars, limit, sessVars, df, batch_size, errlog, exc,
                   failed, stages, count, runVars, checkVars>>

\* the failed executemany caught inside the loop, which goes on
InsertBatchFail_Swallowed ==
    /\ pc = "batch"
    /\ start_idx < total_rows
    /\ ops' = Append(ops, Call("INSERT", FALSE,
                               BatchValues(df, start_idx, end_idx)))
    /\ start_idx' = start_idx + batch_size
    /\ UNCHANGED <<pc, cliVars, limit, sessVars, df, batch_size,
                   inserted_count, table, errlog, exc, failed, stages, count,
                   runVars, checkVars>>

\* executemany raises: the statement inserts nothing and the loop is left
InsertBatchFail ==
    /\ pc = "batch"
    /\ start_idx < total_rows
    /\ ops' = Append(ops, Call("INSERT", FALSE,
                               BatchValues(df, start_idx, end_idx)))
    /\ exc' = "load" /\ failed' = "load"
    /\ pc' = RaiseTo
    /\ UNCHANGED <<cliVars, limit, sessVars, df, loadVars, table, errlog,
                   stages, count, runVars, checkVars>>

\* range() is exhausted: conn.commit() and return
Commit ==
    /\ pc = "batch"
    /\ start_idx >= total_rows
    /\ ops' = Append(ops, Call("COMMIT", TRUE, <<>>))
    /\ stages' = Append(stages, "end load")
    /\ pc' = IF caller = "cli" THEN "verify_count" ELSE "returned"
    /\ UNCHANGED <<cliVars, limit, sessVars, df, loadVars, table, errlog,
                   exc, failed, count, runVars, checkVars>>

CommitFail ==
    /\ pc = "batch"
    /\ start_idx >= total_rows
    /\ ops' = Append(ops, Call("COMMIT", FALSE, <<>>))
    /\ exc' = "load" /\ failed' = "load"
    /\ pc' = RaiseTo
    /\ UNCHANGED <<cliVars, limit, sessVars, df, loadVars, table, errlog,
                   stages, count, runVars, checkVars>>

(* ----------------------------- verify_load --------------------------- *)

\* SELECT COUNT(*) and fetchone
VerifyCount ==
    /\ pc = "verify_count"
    /\ ops' = Append(ops, Call("COUNT", TRUE, <<>>))
    /\ count' = Len(table)
    /\ stages' = Append(stages, "begin verify")
    /\ pc' = "verify_top"
    /\ UNCHANGED <<cliVars, limit, sessVars, df, loadVars, table, errlog,
                   exc, failed, runVars, checkVars>>

VerifyCountFail ==
    /\ pc = "verify_count"
    /\ ops' = Append(ops, Call("COUNT", FALSE, <<>>))
    /\ stages' = Append(stages, "begin verify")
    /\ exc' = "verify" /\ failed' = "verify"
    /\ pc' = RaiseTo
    /\ UNCHANGED <<cliVars, limit, sessVars, df, loadVars, table, errlog,
                   count, runVars, checkVars>>

\* the top-5 towns query and fetchall; run_pipeline then logs its summary
VerifyTop ==
    /\ pc = "verify_top"
    /\ ops' = Append(ops, Call("TOP5", TRUE, <<>>))
    /\ stages' = Append(stages, "end verify")
    /\ pc' = "close_cursor"
    /\ UNCHANGED <<cliVars, limit, sessVars, df, loadVars, table, errlog,
                   exc, failed, count, runVars, checkVars>>

VerifyTopFail ==
    /\ pc = "verify_top"
    /\ ops' = Append(ops, Call("TOP5", FALSE, <<>>))
    /\ exc' = "verify" /\ failed' = "verify"
    /\ pc' = RaiseTo
    /\ UNCHANGED <<cliVars, limit, sessVars, df, loadVars, table, errlog,
                   stages, count, runVars, checkVars>>

(* ----------------------------- run_pipeline -------------------------- *)

\* except Exception as e: the four logger.error calls, then raise
Except ==
    /\ pc = "except"
    /\ errlog' = errlog \o <<RuleRecord, FailedBannerRecord,
                             ErrorDetailRecord, RuleRecord>>
    /\ pc' = "close_cursor"
    /\ UNCHANGED <<cliVars, limit, sessVars, df, loadVars, table, ops, exc,
                   failed, stages, count, runVars, checkVars>>

\* finally: self.cursor.close()
CloseCursor ==
    /\ pc = "close_cursor"
    /\ cursor' = "closed"
    /\ pc' = "close_conn"
    /\ UNCHANGED <<cliVars, limit, conn, connects, conn_args, df, loadVars,
                   table, ops, errlog, exc, failed, stages, count, runVars,
                   checkVars>>

\* conn.close() at the end of the try body instead of the finally clause
CloseConn_SuccessOnly ==
    /\ pc = "close_conn"
    /\ conn' = IF exc = "none" THEN "closed" ELSE conn
    /\ pc' = IF exc = "none" THEN "returned" ELSE "raised"
    /\ UNCHANGED <<cliVars, limit, cursor, connects, conn_args, df, loadVars,
                   table, ops, errlog, exc, failed, stages, count, runVars,
                   checkVars>>

\* finally: self.conn.close(); run_pipeline then returns, or the pending
\* exception goes on to the caller
CloseConn ==
    /\ pc = "close_conn"
    /\ conn' = "closed"
    /\ pc' = IF exc = "none" THEN "returned" ELSE "raised"
    /\ UNCHANGED <<cliVars, limit, cursor, connects, conn_args, df, loadVars,
                   table, ops, errlog, exc, failed, stages, count, runVars,
                   checkVars>>

\* the script is started again; only the warehouse table outlives a process
Rerun ==
    /\ caller = "cli"
    /\ pc \in {"exit", "crashed", "returned", "raised"}
    /\ runs < MaxRuns
    /\ runs' = runs + 1
    /\ pc' = "choice"
    /\ typed_choice' = PyNone /\ typed_confirm' = PyNone
    /\ choice' = PyNone /\ confirm' = PyNone /\ limit' = PyNone
    /\ conn' = "none" /\ cursor' = "none" /\ connects' = 0
    /\ conn_args' = PyNone
    /\ df' = NoFrame /\ served' = NoFrame
    /\ batch_size' = 0 /\ start_idx' = 0 /\ inserted_count' = 0
    /\ table0' = table
    /\ ops' = <<>> /\ errlog' = <<>> /\ exc' = "none" /\ failed' = "none"
    /\ stages' = <<>> /\ count' = -1
    /\ UNCHANGED <<caller, table, keeps, checkVars>>

InitCommon ==
    /\ typed_choice = PyNone /\ typed_confirm = PyNone
    /\ choice = PyNone /\ confirm = PyNone /\ limit = PyNone
    /\ connects = 0 /\ conn_args = PyNone
    /\ df = NoFrame /\ served = NoFrame
    /\ batch_size = 0 /\ start_idx = 0 /\ inserted_count = 0
    /\ ops = <<>> /\ errlog = <<>> /\ exc = "none" /\ failed = "none"
    /\ stages = <<>> /\ count = -1
    /\ runs = 1
    /\ keeps \in BOOLEAN
    /\ missing = <<>>
    /\ shown = [k \in {} |-> <<>>]

\* the script ingest_data.py is started
Init ==
    /\ InitCommon
    /\ caller = "cli" /\ pc = "choice"
    /\ conn = "none" /\ cursor = "none"
    /\ table = <<>> /\ table0 = <<>>
    /\ env = FullEnv

Next ==
    \/ ReadChoice \/ ReadConfirm \/ Construct \/ ConstructFail
    \/ DownloadData \/ DownloadDataFail \/ CleanData \/ CleanDataFail
    \/ Truncate \/ TruncateFail \/ InsertBatch \/ InsertBatchFail
    \/ Commit \/ CommitFail
    \/ VerifyCount \/ VerifyCountFail \/ VerifyTop \/ VerifyTopFail
    \/ Except \/ CloseCursor \/ CloseConn \/ Rerun

Spec == Init /\ [][Next]_vars

(* ------------------- load_to_bronze, called directly ----------------- *)

\* what an earlier load left in the table
StaleTable == BatchValues(Cleaned(ReadCsv(<<RowGaps, RowFull>>), FALSE), 0, 2)

\* ingestion.load_to_bronze(df, batch_size) on a cleaned frame
CallLoad ==
    /\ caller = "load" /\ pc = "idle"
    /\ \E src \in Sources(caller), b \in 1..MaxBatch :
        /\ df' = Cleaned(ReadCsv(src), keeps)
        /\ batch_size' = b
    /\ pc' = "truncate"
    /\ UNCHANGED <<cliVars, limit, sessVars, start_idx, inserted_count, table,
                   ops, errlog, exc, failed, stages, count, runVars, checkVars>>

\* a constructed CTRealEstateIngestion whose table holds earlier rows or none
InitLoad ==
    /\ InitCommon
    /\ caller = "load" /\ pc = "idle"
    /\ conn = "open" /\ cursor = "open"
    /\ table \in {<<>>, StaleTable} /\ table0 = table
    /\ env = FullEnv

NextLoad ==
    \/ CallLoad
    \/ Truncate \/ TruncateFail \/ InsertBatch \/ InsertBatchFail
    \/ Commit \/ CommitFail

SpecLoad == InitLoad /\ [][NextLoad]_vars

(* -------------------- download_data, called directly ----------------- *)

\* ingestion.download_data(limit=lim), or download_data() for PyNone
CallDownload ==
    /\ caller = "download" /\ pc = "idle"
    /\ \E lim \in Limits : limit' = lim
    /\ pc' = "download"
    /\ UNCHANGED <<cliVars, sessVars, df, loadVars, table, ops, errlog, exc,
                   failed, stages, count, runVars, checkVars>>

InitDownload ==
    /\ InitCommon
    /\ caller = "download" /\ pc = "idle"
    /\ conn = "open" /\ cursor = "open"
    /\ table = <<>> /\ table0 = <<>>
    /\ env = FullEnv

NextDownload == CallDownload \/ DownloadData \/ DownloadDataFail

SpecDownload == InitDownload /\ [][NextDownload]_vars

(* -------------------------- test_connection.py ----------------------- *)

\* the loop printing each required variable, the password hidden
ShowEnv ==
    /\ caller = "check" /\ pc = "show"
    /\ shown' = [k \in {required_vars[i] : i \in 1..Len(required_vars)} |->
                    IF k = "SNOWFLAKE_PASSWORD"
                    THEN (IF Truthy(Getenv(k))
                          THEN [i \in 1..10 |-> "*"]
                          ELSE <<"N", "O", "T", " ", "S", "E", "T">>)
                    ELSE StrOf(Getenv(k))]
    /\ pc' = "validate"
    /\ UNCHANGED <<cliVars, limit, sessVars, df, loadVars, table, ops, errlog,
                   exc, failed, stages, count, runVars, env, missing>>

RECURSIVE MissingFrom_UnsetOnly(_)
\* "if os.getenv(v) is None": an empty value counts as present
MissingFrom_UnsetOnly(i) ==
    IF i > Len(required_vars) THEN <<>>
    ELSE (IF Getenv(required_vars[i]) # PyNone THEN <<>>
          ELSE <<required_vars[i]>>) \o MissingFrom_UnsetOnly(i + 1)

RECURSIVE MissingFrom(_)
\* [v for v in required_vars[i:] if not os.getenv(v)], as a list in order
MissingFrom(i) ==
    IF i > Len(required_vars) THEN <<>>
    ELSE (IF Truthy(Getenv(required_vars[i])) THEN <<>>
          ELSE <<required_vars[i]>>) \o MissingFrom(i + 1)

\* missing = [...]; if missing: print them and exit(1)
Validate ==
    /\ caller = "check" /\ pc = "validate"
    /\ missing' = MissingFrom(1)
    /\ pc' = IF MissingFrom(1) # <<>> THEN "exit1" ELSE "connect"
    /\ UNCHANGED <<cliVars, limit, sessVars, df, loadVars, table, ops, errlog,
                   exc, failed, stages, count, runVars, env, shown>>

\* the keyword arguments test_connection.py passes to connect
CheckConnectArgs ==
    [account |-> Getenv("SNOWFLAKE_ACCOUNT"), user |-> Getenv("SNOWFLAKE_USER"),
     password |-> Getenv("SNOWFLAKE_PASSWORD"),
     warehouse |-> Getenv("SNOWFLAKE_WAREHOUSE"),
     database |-> Getenv("SNOWFLAKE_DATABASE"),
     schema |-> PyOr(Getenv("SNOWFLAKE_SCHEMA"),
                     PyText(<<"P", "U", "B", "L", "I", "C">>)),
     role |-> PyOr(Getenv("SNOWFLAKE_ROLE"), PyNone)]

\* connect and conn.cursor() succeed
Connect ==
    /\ caller = "check" /\ pc = "connect"
    /\ connects' = connects + 1
    /\ conn_args' = CheckConnectArgs
    /\ conn' = "open" /\ cursor' = "open"
    /\ pc' = "query"
    /\ UNCHANGED <<cliVars, limit, df, loadVars, table, ops, errlog, exc,
                   failed, stages, count, runVars, checkVars>>

\* connect raises: the except clause prints the failure and the script ends
ConnectFail ==
    /\ caller = "check" /\ pc = "connect"
    /\ connects' = connects + 1
    /\ conn_args' = CheckConnectArgs
    /\ failed' = "connect"
    /\ pc' = "reported"
    /\ UNCHANGED <<cliVars, limit, conn, cursor, df, loadVars, table, ops,
                   errlog, exc, stages, count, runVars, checkVars>>

\* the identity query and fetchone, the prints, then both close calls
IdentityQuery ==
    /\ caller = "check" /\ pc = "query"
    /\ ops' = Append(ops, Call("IDENTITY", TRUE, <<>>))
    /\ cursor' = "closed" /\ conn' = "closed"
    /\ pc' = "done"
    /\ UNCHANGED <<cliVars, limit, connects, conn_args, df, loadVars, table,
                   errlog, exc, failed, stages, count, runVars, checkVars>>

\* the query raises: the except clause prints the failure, nothing is closed
IdentityQueryFail ==
    /\ caller = "check" /\ pc = "query"
    /\ ops' = Append(ops, Call("IDENTITY", FALSE, <<>>))
    /\ failed' = "query"
    /\ pc' = "reported"
    /\ UNCHANGED <<cliVars, limit, sessVars, df, loadVars, table, errlog,
                   exc, stages, count, runVars, checkVars>>

\* test_connection.py is started in some environment
InitCheck ==
    /\ InitCommon
    /\ caller = "check" /\ pc = "show"
    /\ conn = "none" /\ cursor = "none"
    /\ table = <<>> /\ table0 = <<>>
    /\ env \in [EnvNames -> EnvValues]

NextCheck ==
    \/ ShowEnv \/ Validate \/ Connect \/ ConnectFail
    \/ IdentityQuery \/ IdentityQueryFail

SpecCheck == InitCheck /\ [][NextCheck]_vars

(* ---------------------------- properties ----------------------------- *)

IsPrefix(a, b) == Len(a) <= Len(b) /\ a = SubSeq(b, 1, Len(a))

\* the text rows load_to_bronze derives from the whole frame, in order
AllValues(frame) == BatchValues(frame, 0, Len(frame.rows))

Inserts == SelectSeq(ops, LAMBDA c : c.op = "INSERT")
Commits == SelectSeq(ops, LAMBDA c : c.op = "COMMIT")

RECURSIVE Flatten(_)
Flatten(ss) == IF ss = <<>> THEN <<>> ELSE Head(ss).values \o Flatten(Tail(ss))

CeilDiv(a, b) == (a + b - 1) \div b

StageOrder == <<"begin download", "end download", "begin clean", "end clean",
                "begin load", "end load", "begin verify", "end verify">>

BeginOf(stage) ==
    CASE stage = "download" -> "begin download"
      [] stage = "clean" -> "begin clean"
      [] stage = "load" -> "begin load"
      [] stage = "verify" -> "begin verify"

\* the points of a process where the pipeline has been entered
InPipeline ==
    \/ connects > 0 \/ conn # "none" \/ ops # <<>> \/ stages # <<>>
    \/ table # table0
    \/ pc \notin {"choice", "confirm", "exit"}

\* failure reports in the error log: download_data's record and
\* run_pipeline's banner
FailureReports ==
    Len(SelectSeq(errlog, LAMBDA r : r \in {DownloadErrorRecord,
                                            FailedBannerRecord}))

\* C1: when run_pipeline has returned or its exception has reached the
\* caller, the cursor and the connection are both closed, whichever stage
\* failed or none; it returns normally only if no stage raised, and
\* otherwise the exception that reaches the caller is the stage's.
C1_ReleasedOnEveryExit ==
    (caller = "cli" /\ pc \in {"returned", "raised"}) =>
        /\ cursor = "closed" /\ conn = "closed"
        /\ (pc = "returned") = (failed = "none")
        /\ (pc = "raised") => (exc = failed)

C1_Witness ==
    /\ pc = "raised" /\ failed = "load"
    /\ cursor = "closed" /\ conn = "closed"
    /\ Len(Inserts) = 1 /\ ~Inserts[1].ok

\* C2: right after the truncate and before any insert the table is empty;
\* once load_to_bronze has succeeded on a frame the table holds exactly
\* the rows of that frame, as many as the frame has, whatever it held
\* before; so after a successful run the table holds that run's dataset
\* and nothing of earlier runs, and verify_load counts that many rows.
C2_TableIsLatestDataset ==
    /\ (pc = "batch" /\ Inserts = <<>>) => Len(table) = 0
    /\ (pc \in {"verify_count", "verify_top", "returned"}
            \/ (Len(stages) >= 6 /\ stages[6] = "end load")) =>
        /\ table = AllValues(df)
        /\ Len(table) = Len(df.rows)
    /\ count # -1 => count = Len(df.rows)

C2_Witness ==
    /\ pc = "returned" /\ runs = 2
    /\ Len(table0) = 2 /\ Len(table) = 1 /\ table[1] # table0[1]
    /\ table[1] # table0[2]

\* C3: the stages are entered and completed in the order download, clean,
\* load, verify, each entered only after the one before completed; after
\* a stage raised no later stage is entered; in particular after a failed
\* download no warehouse call is issued and the table is unchanged.
C3_StagesInOrder ==
    /\ IsPrefix(stages, StageOrder)
    /\ failed # "none" => stages[Len(stages)] = BeginOf(failed)
    /\ ops # <<>> => IsPrefix(SubSeq(StageOrder, 1, 5), stages)
    /\ failed = "download" => (ops = <<>> /\ table = table0 /\ count = -1)

C3_Witness ==
    /\ pc = "raised" /\ failed = "download"
    /\ table0 # <<>> /\ table = table0 /\ ops = <<>>
    /\ conn = "closed"

\* C4: the k-th insert of load_to_bronze carries the rows of the
\* consecutive slice [(k-1)*b, min(k*b, n)) of the frame, in order and
\* never more than b of them; after a successful load there are
\* ceil(n/b) inserts and their rows, concatenated, are the rows of the
\* frame.
C4_BatchesPartitionDataset ==
    /\ \A k \in 1..Len(Inserts) :
        /\ Inserts[k].values =
              BatchValues(df, (k - 1) * batch_size,
                          Min(k * batch_size, Len(df.rows)))
        /\ Len(Inserts[k].values) \in 1..batch_size
    /\ pc = "returned" =>
        /\ Len(Inserts) = CeilDiv(Len(df.rows), batch_size)
        /\ Flatten(Inserts) = AllValues(df)
        /\ inserted_count = Len(df.rows)

C4_Witness ==
    /\ pc = "returned" /\ Len(df.rows) = 3 /\ batch_size = 2
    /\ Len(Inserts) = 2
    /\ Len(Inserts[1].values) = 2 /\ Len(Inserts[2].values) = 1

\* C5: a commit is issued at most once, as the last call, after the
\* truncate and all ceil(n/b) inserts succeeded, and exactly once in a
\* load that returns; a call that fails is the last call of the stage (no
\* retry, no further insert, no commit) and its error reaches the caller.
C5_CommitOnceAfterAllBatches ==
    /\ Len(Commits) <= 1
    /\ \A i \in 1..Len(ops) :
        /\ ops[i].op = "COMMIT" =>
            /\ i = Len(ops)
            /\ \A j \in 1..(i - 1) : ops[j].ok
            /\ Len(Inserts) = CeilDiv(Len(df.rows), batch_size)
        /\ ~ops[i].ok =>
            /\ i = Len(ops)
            /\ pc = "raised" /\ exc = "load"
    /\ pc = "returned" => (Len(Commits) = 1 /\ Commits[1].ok)
    /\ pc = "raised" => ~ops[Len(ops)].ok

C5_Witness ==
    /\ pc = "raised" /\ exc = "load"
    /\ Len(ops) = 3 /\ ops[2].op = "INSERT" /\ ops[2].ok
    /\ ops[3].op = "INSERT" /\ ~ops[3].ok
    /\ Len(df.rows) = 3 /\ batch_size = 1
    /\ Commits = <<>>

\* whether a value of the frame is an absent one
Absent(v) == v.kind \in {"none", "nan"}

\* C6: every text load_to_bronze inserts is the text of the field's value
\* when the value is present and the empty text when it is absent.
C6_TextOrEmpty ==
    \A k \in 1..Len(Inserts) : \A j \in 1..Len(Inserts[k].values) :
        \A f \in 1..Len(ColumnNames) :
            LET v == df.rows[(k - 1) * batch_size + j][ColumnNames[f]]
            IN Inserts[k].values[j][f] = IF Absent(v) THEN <<>> ELSE StrOf(v)

\* C7: download_data with a limit N >= 0 returns the first min(N,
\* available) records of the source in source order, and all of them
\* without a limit.
C7_LimitIsFirstN ==
    (caller = "download" /\ pc = "returned" /\ limit.n >= 0) =>
        IF limit = PyNone THEN df = served
        ELSE /\ Len(df.rows) = Min(limit.n, Len(served.rows))
             /\ df.rows = SubSeq(served.rows, 1, Min(limit.n, Len(served.rows)))

\* the required names that are unset or empty
MissingNames ==
    {k \in {required_vars[i] : i \in 1..Len(required_vars)} :
        env[k] = PyNone \/ env[k] = EmptyStr}

\* C8: when some required names are unset or empty the check reports
\* exactly those names, each once and in list order, and ends without a
\* connect call; connect is called only when all five are present.
C8_MissingReportedNoConnect ==
    /\ (pc \notin {"show", "validate"} /\ MissingNames # {}) =>
        /\ pc = "exit1"
        /\ {missing[i] : i \in 1..Len(missing)} = MissingNames
        /\ Len(missing) = Cardinality(MissingNames)
        /\ \A i, j \in 1..Len(missing) :
              i < j => \E a, b \in 1..Len(required_vars) :
                          a < b /\ required_vars[a] = missing[i]
                                /\ required_vars[b] = missing[j]
        /\ connects = 0 /\ conn = "none" /\ ops = <<>>
    /\ pc = "exit1" => MissingNames # {}
    /\ (connects > 0 \/ pc = "connect") => MissingNames = {}

C8_Witness ==
    /\ pc = "exit1" /\ missing = <<"SNOWFLAKE_PASSWORD">>
    /\ env["SNOWFLAKE_PASSWORD"] = EmptyStr
    /\ connects = 0

\* C9 as stated: the pipeline is entered only when the line entered at
\* the first prompt is "1", or is "2" and the line entered at the second
\* prompt is "yes".
C9_OnlyLiteralInputs ==
    InPipeline =>
        \/ typed_choice = PyText(One)
        \/ (typed_choice = PyText(Two) /\ typed_confirm = PyText(Yes))

\* C9: the pipeline is entered only when the line entered at the first
\* prompt, stripped of surrounding whitespace, is "1" (limit 10,000), or
\* is "2" and the line entered at the second prompt, stripped and
\* lower-cased, is "yes" (no limit); otherwise the script exits with no
\* connect call, no warehouse call and the table untouched.
C9_OnlyNormalizedInputs ==
    /\ InPipeline =>
        \/ /\ typed_choice.kind = "str" /\ Strip(typed_choice.s) = One
           /\ limit = PyInt(TestLimit) /\ typed_confirm = PyNone
        \/ /\ typed_choice.kind = "str" /\ Strip(typed_choice.s) = Two
           /\ typed_confirm.kind = "str"
           /\ Lower(Strip(typed_confirm.s)) = Yes
           /\ limit = PyNone
    /\ pc = "exit" =>
        /\ connects = 0 /\ conn = "none" /\ ops = <<>> /\ table = table0

C9_Witness ==
    /\ typed_choice = PyText(Two)
    /\ typed_confirm = PyText(<<" ", "Y", "E", "s">>)
    /\ pc = "returned" /\ Len(table) = 2

\* C10 as stated: a failed download leaves exactly one failure report in
\* the error log.
C10_LoggedOnce ==
    (pc = "raised" /\ failed = "download") => FailureReports = 1

\* C10: a failed download leaves two failure reports in the error log,
\* download_data's record first and then run_pipeline's banner, each
\* once; a failure of any other stage leaves the banner alone.
C10_LoggedOncePerLayer ==
    (caller = "cli" /\ pc = "raised") =>
        /\ failed = "download" =>
            /\ errlog = <<DownloadErrorRecord, RuleRecord, FailedBannerRecord,
                          ErrorDetailRecord, RuleRecord>>
            /\ FailureReports = 2
        /\ failed # "download" =>
            /\ errlog = <<RuleRecord, FailedBannerRecord, ErrorDetailRecord,
                          RuleRecord>>
            /\ FailureReports = 1

C10_Witness ==
    /\ pc = "raised" /\ failed = "download"
    /\ Len(errlog) = 5 /\ errlog[1] = DownloadErrorRecord
    /\ errlog[3] = FailedBannerRecord

====
